---- MODULE Spec2Model ----
(***************************************************************************)
(* MuToXGuard (app_simple.py): a Streamlit script that loads a classifier  *)
(* and a vectorizer, and on each user interaction is re-executed from top  *)
(* to bottom.  One action of the model is one execution of the script.     *)
(*                                                                         *)
(* A text is a sequence of chunks; a chunk is one typed character or one   *)
(* of the three canned example strings.  Probabilities are in percent.     *)
(***************************************************************************)
EXTENDS Integers, Sequences, FiniteSets, TLC

VARIABLES
    disk,           \* the two joblib files: readable or not, and what they hold
    cache,          \* the st.cache_resource entry of load_model
    attempts,       \* number of executions of the body of load_model
    session_state,  \* st.session_state of the browser session (a dict)
    widgets,        \* widget state of the text area, keyed by widget identity
    pending,        \* a rerun requested by st.rerun() has not run yet
    run,            \* what the most recent execution of the script did
    prev,           \* the analysis attempt before the one in run
    probe           \* the last two direct applications of analyze_text

vars == <<disk, cache, attempts, session_state, widgets, pending, run, prev, probe>>

----------------------------------------------------------------------------
(* Bounds *)

MaxTextLen == 1
MaxAttempts == 2

----------------------------------------------------------------------------
(* Texts *)

Example1 == <<"You are awesome! Great work!">>
Example2 == <<"This is stupid and you're an idiot">>
Example3 == <<"Bodoh punya orang">>
Examples == {Example1, Example2, Example3}

\* what the user types: " " is whitespace, "x" is any other character; it is
\* a term of the vocabulary, and the input an incompatible artifact chokes on
Alphabet == {" ", "x"}
Whitespace == {" "}
TypedTexts == UNION {[1..n -> Alphabet] : n \in 0..MaxTextLen}

RECURSIVE lstrip(_)
lstrip(s) == IF s # <<>> /\ Head(s) \in Whitespace THEN lstrip(Tail(s)) ELSE s

RECURSIVE rstrip(_)
rstrip(s) ==
    IF s # <<>> /\ s[Len(s)] \in Whitespace
    THEN rstrip(SubSeq(s, 1, Len(s) - 1)) ELSE s

strip(s) == rstrip(lstrip(s))

----------------------------------------------------------------------------
(* Artifacts: what the two files deserialize to *)

\* model: predict_proba is base + step * (vocabulary terms), predict is the
\* model's own decision rule, probability > cut.  bad names the call that
\* raises on typed text.
ArtifactFamily ==
    { [model |-> [base |-> 20, step |-> 30, cut |-> 50, bad |-> "none"],
       vectorizer |-> [bad |-> "none"]],
      [model |-> [base |-> 20, step |-> 31, cut |-> 80, bad |-> "none"],
       vectorizer |-> [bad |-> "transform"]],
      [model |-> [base |-> 50, step |-> 30, cut |-> 30, bad |-> "predict_proba"],
       vectorizer |-> [bad |-> "none"]],
      [model |-> [base |-> 50, step |-> 31, cut |-> 50, bad |-> "predict"],
       vectorizer |-> [bad |-> "none"]] }

\* "unloadable": a file is missing, unreadable or not deserializable
DiskStatus == {"ok", "unloadable"}

NoCache == [id |-> 0]

\* load_model under @st.cache_resource: c the cache entry, d the disk, n the
\* number of executions of the body so far.  A return value is cached, an
\* exception is not.
load_model_nocache(c, d, n) ==
    IF d.status = "ok"
    THEN LET inst == [id |-> n + 1, model |-> d.artifacts.model,
                      vectorizer |-> d.artifacts.vectorizer]
         IN [raised |-> FALSE, value |-> inst, cache |-> inst, attempts |-> n + 1]
    ELSE [raised |-> TRUE, value |-> NoCache, cache |-> NoCache, attempts |-> n + 1]

load_model(c, d, n) ==
    IF c # NoCache
    THEN [raised |-> FALSE, value |-> c, cache |-> c, attempts |-> n]
    ELSE IF d.status = "ok"
    THEN LET inst == [id |-> n + 1, model |-> d.artifacts.model,
                      vectorizer |-> d.artifacts.vectorizer]
         IN [raised |-> FALSE, value |-> inst, cache |-> inst, attempts |-> n + 1]
    ELSE [raised |-> TRUE, value |-> NoCache, cache |-> NoCache, attempts |-> n + 1]

\* module-level load block: st.stop() in the except clause
LoadBlockStops_mut(lm) == FALSE

LoadBlockStops(lm) == lm.raised

----------------------------------------------------------------------------
(* detect_language *)

LowerLetters == <<"a","b","c","d","e","f","g","h","i","j","k","l","m",
                  "n","o","p","q","r","s","t","u","v","w","x","y","z">>
UpperLetters == <<"A","B","C","D","E","F","G","H","I","J","K","L","M",
                  "N","O","P","Q","R","S","T","U","V","W","X","Y","Z">>

upper_char(c) ==
    IF \E i \in 1..26 : LowerLetters[i] = c
    THEN UpperLetters[CHOOSE i \in 1..26 : LowerLetters[i] = c]
    ELSE c

upper(s) == [i \in 1..Len(s) |-> upper_char(s[i])]

UNKNOWN == <<"U","N","K","N","O","W","N">>

\* what detect_langs does on one call: raises, or returns a list of languages
\* ordered by probability (langdetect is randomised)
DetectorOutcomes ==
    { [raises |-> TRUE,  langs |-> <<>>],
      [raises |-> FALSE, langs |-> <<>>],
      [raises |-> FALSE, langs |-> << <<"m","s">>, <<"e","n">> >>],
      [raises |-> FALSE, langs |-> << <<"z","h","-","c","n">>, <<"i","d">> >>] }

NoDet == [raises |-> FALSE, langs |-> <<>>]

detect_language_noupper(det) ==
    IF det.raises THEN [raised |-> FALSE, value |-> UNKNOWN]
    ELSE IF det.langs # <<>>
    THEN [raised |-> FALSE, value |-> Head(det.langs)]
    ELSE [raised |-> FALSE, value |-> UNKNOWN]

detect_language(det) ==
    IF det.raises THEN [raised |-> FALSE, value |-> UNKNOWN]
    ELSE IF det.langs # <<>>
    THEN [raised |-> FALSE, value |-> upper(Head(det.langs))]
    ELSE [raised |-> FALSE, value |-> UNKNOWN]

----------------------------------------------------------------------------
(* analyze_text *)

Weight(chunk) ==
    IF chunk = "x" THEN 1
    ELSE IF chunk = Example2[1] THEN 2
    ELSE IF chunk = Example3[1] THEN 1
    ELSE 0

RECURSIVE TermCount(_)
TermCount(s) == IF s = <<>> THEN 0 ELSE Weight(Head(s)) + TermCount(Tail(s))

\* a probability of 1.0, in percent
MaxProb == 100

Min(a, b) == IF a < b THEN a ELSE b

Rejected(text) == \E i \in 1..Len(text) : text[i] = "x"

\* vectorizer.transform([text])
transform(vectorizer, text) ==
    IF vectorizer.bad = "transform" /\ Rejected(text)
    THEN [raised |-> TRUE, terms |-> 0, odd |-> TRUE]
    ELSE [raised |-> FALSE, terms |-> TermCount(text), odd |-> Rejected(text)]

\* model.predict_proba(X)[0][1]
predict_proba(model, X) ==
    IF model.bad = "predict_proba" /\ X.odd
    THEN [raised |-> TRUE, value |-> 0]
    ELSE [raised |-> FALSE, value |-> Min(MaxProb, model.base + model.step * X.terms)]

\* model.predict(X)[0]
predict(model, X) ==
    IF model.bad = "predict" /\ X.odd
    THEN [raised |-> TRUE, value |-> 0]
    ELSE [raised |-> FALSE,
          value |-> IF Min(MaxProb, model.base + model.step * X.terms) > model.cut
                    THEN 1 ELSE 0]

HighCut == 80
MediumCut == 50

Severity_ge(prob) ==
    IF prob >= HighCut THEN "HIGH" ELSE IF prob >= MediumCut THEN "MEDIUM" ELSE "LOW"

Severity(prob) ==
    IF prob > HighCut THEN "HIGH" ELSE IF prob > MediumCut THEN "MEDIUM" ELSE "LOW"

Verdict_reconciled(pred, prob) ==
    [is_toxic |-> prob > MediumCut, confidence |-> prob, severity |-> Severity(prob)]

\* the dict returned by analyze_text
Verdict(pred, prob) ==
    [is_toxic |-> pred # 0, confidence |-> prob, severity |-> Severity(prob)]

NoResult == [none |-> TRUE]

analyze_text_catching(text, model, vectorizer) ==
    LET X == transform(vectorizer, text)
        prob == predict_proba(model, X)
        pred == predict(model, X)
    IN IF X.raised \/ prob.raised \/ pred.raised
       THEN [exc |-> "none", result |-> Verdict(0, 0)]
       ELSE [exc |-> "none", result |-> Verdict(pred.value, prob.value)]

analyze_text(text, model, vectorizer) ==
    LET X == transform(vectorizer, text)
        prob == predict_proba(model, X)
        pred == predict(model, X)
    IN IF X.raised THEN [exc |-> "transform", result |-> NoResult]
       ELSE IF prob.raised THEN [exc |-> "predict_proba", result |-> NoResult]
       ELSE IF pred.raised THEN [exc |-> "predict", result |-> NoResult]
       ELSE [exc |-> "none", result |-> Verdict(pred.value, prob.value)]

----------------------------------------------------------------------------
(* The script, top to bottom *)

NoAnalysis ==
    [detectCalled |-> FALSE, analyzeCalled |-> FALSE, det |-> NoDet,
     lang |-> <<>>, result |-> NoResult, exc |-> "none", warning |-> FALSE]

AnalysisBlock_nostrip(analyze_btn, text_input, model, vectorizer, det) ==
    IF analyze_btn /\ text_input # <<>>
    THEN LET lang == detect_language(det)
             r == analyze_text(text_input, model, vectorizer)
         IN [detectCalled |-> TRUE, analyzeCalled |-> TRUE, det |-> det,
             lang |-> lang.value, result |-> r.result, exc |-> r.exc,
             warning |-> FALSE]
    ELSE IF analyze_btn THEN [NoAnalysis EXCEPT !.warning = TRUE]
    ELSE NoAnalysis

AnalysisBlock_langdep(analyze_btn, text_input, model, vectorizer, det) ==
    IF analyze_btn /\ strip(text_input) # <<>>
    THEN LET lang == detect_language(det)
             r == analyze_text(text_input, model, vectorizer)
         IN [detectCalled |-> TRUE, analyzeCalled |-> TRUE, det |-> det,
             lang |-> lang.value,
             result |-> IF r.exc = "none" /\ lang.value = UNKNOWN
                        THEN [r.result EXCEPT !.is_toxic = FALSE]
                        ELSE r.result,
             exc |-> r.exc, warning |-> FALSE]
    ELSE IF analyze_btn THEN [NoAnalysis EXCEPT !.warning = TRUE]
    ELSE NoAnalysis

\* lines 179-253: if analyze_btn and text_input.strip(): ... elif analyze_btn: ...
AnalysisBlock(analyze_btn, text_input, model, vectorizer, det) ==
    IF analyze_btn /\ strip(text_input) # <<>>
    THEN LET lang == detect_language(det)
         IN IF lang.raised
            THEN [NoAnalysis EXCEPT !.detectCalled = TRUE, !.det = det,
                                    !.exc = "detect_language"]
            ELSE LET r == analyze_text(text_input, model, vectorizer)
                 IN [detectCalled |-> TRUE, analyzeCalled |-> TRUE, det |-> det,
                     lang |-> lang.value, result |-> r.result, exc |-> r.exc,
                     warning |-> FALSE]
    ELSE IF analyze_btn THEN [NoAnalysis EXCEPT !.warning = TRUE]
    ELSE NoAnalysis

\* the three example buttons of the sidebar
SidebarExamples(btn, ss) ==
    IF btn = "example1" THEN [example |-> Example1]
    ELSE IF btn = "example2" THEN [example |-> Example2]
    ELSE IF btn = "example3" THEN [example |-> Example3]
    ELSE ss

\* st.session_state.get('example', '')
GetExample(ss) == IF "example" \in DOMAIN ss THEN ss.example ELSE <<>>

\* st.text_area(..., value=value) without a key: the widget's identity is
\* derived from its arguments, so a widget keeps what the user typed for as
\* long as value is the same, and starts afresh from value when it changes
text_area(ws, value) == IF value \in DOMAIN ws THEN ws[value] ELSE value

NoWidgets == <<>>

RunRec(halt, loaded, btn, text_input, afterClear, a) ==
    [halt |-> halt, loaded |-> loaded, analyze_btn |-> (btn = "analyze"), text_input |-> text_input,
     afterClear |-> afterClear, detectCalled |-> a.detectCalled,
     analyzeCalled |-> a.analyzeCalled, det |-> a.det, lang |-> a.lang,
     result |-> a.result, exc |-> a.exc, warning |-> a.warning]

NoRun == RunRec("none", NoCache, "none", <<>>, FALSE, NoAnalysis)

Attempt(r) == [text |-> r.text_input, lang |-> r.lang, result |-> r.result, exc |-> r.exc]

NoPrev == Attempt(NoRun)

\* one execution of the script: btn the button pressed, ss the session
\* state and ws the widget state it starts from, det the detector's outcome
ScriptRun(btn, ss, ws, afterClear, det) ==
    LET lm == load_model(cache, disk, attempts)
    IN /\ cache # NoCache \/ attempts < MaxAttempts
       /\ cache' = lm.cache
       /\ attempts' = lm.attempts
       /\ prev' = IF run.detectCalled THEN Attempt(run) ELSE prev
       /\ UNCHANGED <<disk, probe>>
       /\ IF lm.raised
          THEN /\ session_state' = ss
               /\ pending' = FALSE
               /\ IF LoadBlockStops(lm)
                  THEN \* st.stop(): no widget was rendered in this run
                       /\ widgets' = NoWidgets
                       /\ run' = RunRec("stop", NoCache, btn, <<>>, afterClear, NoAnalysis)
                  ELSE \* line 145: vectorizer is not defined
                       /\ widgets' = ws
                       /\ run' = RunRec("exception", NoCache, btn, <<>>, afterClear,
                                        [NoAnalysis EXCEPT !.exc = "NameError"])
          ELSE LET ss1 == SidebarExamples(btn, ss)
                   value == GetExample(ss1)
                   text_input == text_area(ws, value)
               IN /\ widgets' = [k \in {value} |-> text_input]
                  /\ IF btn = "clear"
                     THEN \* st.session_state.example = ''; st.rerun()
                          /\ session_state' = [example |-> <<>>]
                          /\ pending' = TRUE
                          /\ run' = RunRec("rerun", lm.value, btn, text_input,
                                           afterClear, NoAnalysis)
                     ELSE LET a == AnalysisBlock(btn = "analyze", text_input,
                                                 lm.value.model, lm.value.vectorizer, det)
                          IN /\ session_state' = ss1
                             /\ pending' = FALSE
                             /\ run' = RunRec(IF a.exc = "none" THEN "done" ELSE "exception",
                                              lm.value, btn, text_input, afterClear, a)

WidgetsShown == DOMAIN widgets # {}

----------------------------------------------------------------------------
(* Actions *)

\* a browser opens the page
NewSession ==
    /\ ~pending
    /\ ScriptRun("none", <<>>, NoWidgets, FALSE, NoDet)

\* the user asks for a rerun (the only thing to do on the error page)
UserRerun ==
    /\ ~pending
    /\ ScriptRun("none", session_state, widgets, FALSE, NoDet)

\* the rerun that st.rerun() asked for
ClearRerun ==
    /\ pending
    /\ ScriptRun("none", session_state, widgets, TRUE, NoDet)

\* the user edits the text area
TypeText(t) ==
    /\ ~pending
    /\ WidgetsShown
    /\ \A k \in DOMAIN widgets : widgets[k] # t
    /\ ScriptRun("none", session_state, [k \in DOMAIN widgets |-> t], FALSE, NoDet)

PressExample(b) ==
    /\ ~pending
    /\ WidgetsShown
    /\ ScriptRun(b, session_state, widgets, FALSE, NoDet)

PressAnalyze(det) ==
    /\ ~pending
    /\ WidgetsShown
    /\ ScriptRun("analyze", session_state, widgets, FALSE, det)

PressClear ==
    /\ ~pending
    /\ WidgetsShown
    /\ ScriptRun("clear", session_state, widgets, FALSE, NoDet)

\* the files are put in place, removed or damaged
DiskChange(s) ==
    /\ s # disk.status
    /\ disk' = [disk EXCEPT !.status = s]
    /\ UNCHANGED <<cache, attempts, session_state, widgets, pending, run, prev, probe>>

NoProbe == [p |-> 0, label |-> FALSE, result |-> NoResult]

Init ==
    /\ disk \in [status : DiskStatus, artifacts : ArtifactFamily]
    /\ cache = NoCache
    /\ attempts = 0
    /\ session_state = <<>>
    /\ widgets = NoWidgets
    /\ pending = FALSE
    /\ run = NoRun
    /\ prev = NoPrev
    /\ probe = <<NoProbe, NoProbe>>

Next ==
    \/ NewSession
    \/ UserRerun
    \/ ClearRerun
    \/ \E t \in TypedTexts : TypeText(t)
    \/ \E b \in {"example1", "example2", "example3"} : PressExample(b)
    \/ \E det \in DetectorOutcomes : PressAnalyze(det)
    \/ PressClear
    \/ \E s \in DiskStatus : DiskChange(s)

Spec == Init /\ [][Next]_vars

----------------------------------------------------------------------------
(* analyze_text applied directly to a model that answers p and label *)

StubModel(p, label) ==
    [base |-> p, step |-> 0, cut |-> IF label THEN -1 ELSE MaxProb, bad |-> "none"]

ProbeText == <<"x">>

Probe(p, label) ==
    LET r == analyze_text(ProbeText, StubModel(p, label), [bad |-> "none"])
    IN /\ probe' = <<probe[2], [p |-> p, label |-> label, result |-> r.result]>>
       /\ UNCHANGED <<disk, cache, attempts, session_state, widgets, pending, run, prev>>

ProbeInit == Init /\ disk.status = "ok" /\ disk.artifacts.model.cut = 80

ProbeNext == \E p \in 0..MaxProb, label \in BOOLEAN : Probe(p, label)

ProbeSpec == ProbeInit /\ [][ProbeNext]_vars

----------------------------------------------------------------------------
(* Properties *)

HasNonWhitespace(text) == \E i \in 1..Len(text) : text[i] # " "

ScoringStages == {"transform", "predict_proba", "predict"}

\* the call of analyze_text at which the artifacts of inst fail on text
FailingStage(inst, text) ==
    IF \A i \in 1..Len(text) : text[i] \in {Example1[1], Example2[1], Example3[1], " "}
    THEN "none"
    ELSE IF inst.vectorizer.bad # "none" THEN inst.vectorizer.bad
    ELSE inst.model.bad

C2_LoadFailureHalts ==
    (run.halt # "none" /\ run.loaded = NoCache) =>
        /\ run.halt = "stop"
        /\ ~run.detectCalled
        /\ ~run.analyzeCalled
        /\ run.result = NoResult
        /\ ~run.warning

C2_Witness == run.halt = "stop" /\ run.loaded = NoCache /\ attempts = 2

\* C3: once load_model has succeeded, every later run gets the cached
\* instances, the files are not deserialized again, and no action replaces
\* or changes the cached instances.
C3_CachedInstancesStable ==
    [][cache # NoCache =>
         /\ cache' = cache
         /\ run'.loaded = cache
         /\ attempts' = attempts]_vars

C3_Witness ==
    /\ cache # NoCache
    /\ disk.status # "ok"
    /\ run.afterClear /\ run.loaded = cache
    /\ prev.result # NoResult
    /\ "example" \in DOMAIN session_state

\* C4 as stated: the body of load_model executes at most once in the process,
\* also when the first attempt failed.
C4_LoadBodyAtMostOnce == attempts <= 1

\* C4 amended: once an attempt has succeeded the body of load_model never
\* executes again, and as long as no attempt has succeeded every script run
\* executes it once more.
C4_NoReloadAfterSuccess ==
    [][/\ cache # NoCache => attempts' = attempts
       /\ (cache = NoCache /\ disk' = disk) => attempts' = attempts + 1]_vars

C4_Witness ==
    /\ attempts = 2 /\ cache # NoCache /\ cache.id = 2
    /\ run.analyzeCalled

\* C5: detect_language does not raise; it returns "UNKNOWN" when the detector
\* raises or returns an empty list, and otherwise the upper-cased code of the
\* first language of the list.
C5_DetectLanguage ==
    run.detectCalled =>
        /\ run.exc # "detect_language"
        /\ (run.det.raises \/ run.det.langs = <<>>) =>
               run.lang = <<"U","N","K","N","O","W","N">>
        /\ (~run.det.raises /\ run.det.langs # <<>>) =>
               \/ /\ run.det.langs[1] = <<"m","s">>
                  /\ run.lang = <<"M","S">>
               \/ /\ run.det.langs[1] = <<"z","h","-","c","n">>
                  /\ run.lang = <<"Z","H","-","C","N">>

C5_Witness ==
    /\ run.detectCalled /\ run.det.raises /\ run.lang = UNKNOWN
    /\ prev.lang = <<"Z","H","-","C","N">>

\* C6: when transform, predict_proba or predict fails on the text of a
\* request the run ends with that exception and without a verdict, the cached
\* instances are unchanged, and a request on a text the artifacts accept
\* produces its verdict, also after such a failure.
C6_ScoringFailure ==
    [][run'.analyzeCalled =>
         LET stage == FailingStage(run'.loaded, run'.text_input)
         IN /\ cache' = cache
            /\ stage # "none" =>
                  /\ run'.exc = stage
                  /\ run'.halt = "exception"
                  /\ run'.result = NoResult
            /\ stage = "none" =>
                  /\ run'.exc = "none"
                  /\ run'.result # NoResult]_vars

C6_Witness ==
    /\ prev.exc \in ScoringStages /\ prev.result = NoResult
    /\ run.analyzeCalled /\ run.result # NoResult

\* C7: in the run that follows the clear action the text input is empty.
C7_ClearEmptiesInput ==
    (run.afterClear /\ run.halt = "done") => run.text_input = <<>>

\* C8: two requests on the same text get the same verdict whatever the
\* language detector answered for each of them.
C8_LanguageDoesNotInfluenceVerdict ==
    (run.result # NoResult /\ prev.result # NoResult /\ prev.text = run.text_input)
        => run.result = prev.result

C8_Witness ==
    /\ run.result # NoResult /\ prev.result # NoResult
    /\ prev.text = run.text_input
    /\ run.lang = UNKNOWN /\ prev.lang = <<"M","S">>
    /\ run.result.is_toxic

\* C9: is_toxic is the label the model predicted and nothing else, so a
\* verdict may pair is_toxic = false with MEDIUM or HIGH and is_toxic = true
\* with LOW; two verdicts of the same confidence and different labels differ
\* in is_toxic only.
C9_LabelAndSeverityIndependent ==
    /\ \A i \in 1..2 :
        probe[i].result # NoResult => probe[i].result.is_toxic = probe[i].label
    /\ (probe[1].result # NoResult /\ probe[2].result # NoResult
        /\ probe[1].p = probe[2].p /\ probe[1].label # probe[2].label)
        => /\ probe[1].result.is_toxic # probe[2].result.is_toxic
           /\ probe[1].result.confidence = probe[2].result.confidence

C9_Witness ==
    /\ probe[1].result # NoResult /\ probe[2].result # NoResult
    /\ ~probe[1].result.is_toxic /\ probe[1].result.severity \in {"MEDIUM", "HIGH"}
    /\ probe[2].result.is_toxic /\ probe[2].result.severity = "LOW"

\* C10: the detector and the scorer are called only in a run in which analyze
\* was pressed and the text has a non-whitespace character; analyze on an
\* empty or whitespace-only text calls neither and shows the warning; without
\* analyze neither a result nor the warning is shown.
C10_AnalysisGuard ==
    /\ (run.detectCalled \/ run.analyzeCalled) =>
           (run.analyze_btn /\ HasNonWhitespace(run.text_input))
    /\ (run.analyze_btn /\ ~HasNonWhitespace(run.text_input)) =>
           (~run.detectCalled /\ ~run.analyzeCalled /\ run.warning
            /\ run.result = NoResult)
    /\ ~run.analyze_btn => (run.result = NoResult /\ ~run.warning)

C10_Witness ==
    /\ run.analyze_btn /\ run.text_input = <<" ">> /\ run.warning
    /\ prev.result # NoResult

====
